---------------------------- MODULE Spec2Model ----------------------------
(***************************************************************************)
(* Final-Trace: the puzzle engine (core/engine.py), its in-memory store,   *)
(* the four registered puzzle variants (puzzles/puzzle1..4.py) and the     *)
(* helpers they use (utils/crypto.py, utils/helpers.py).                   *)
(*                                                                         *)
(* Representation.                                                         *)
(*   - A Python str is a sequence of code points, a bytes object a         *)
(*     sequence of 0..255; string literals of the source are spelled out   *)
(*     as code point sequences below.                                      *)
(*   - An answer is a tagged value [type, val]: type is "int", "str",      *)
(*     "bytes" or "none" (Python None).                                    *)
(*   - A store key is a 4-tuple <<prefix, name, ts, field>>:               *)
(*     f"puzzle:{name}:attempts" is <<"puzzle", name, NoTs, "attempts">>   *)
(*     and f"attempt:{name}:{ts}:{field}" is <<"attempt", name, ts,        *)
(*     field>>.  Registered names contain no ':' so the encoding is        *)
(*     one-to-one with the formatted strings.                              *)
(*   - Time is counted in whole milliseconds; a duration is the number of  *)
(*     milliseconds between the two time.time() readings around solve.     *)
(***************************************************************************)
EXTENDS Integers, Sequences, FiniteSets, TLC

(***************************************************************************)
(* Bounds of the model.                                                    *)
(***************************************************************************)
\* attempts made on one engine
MaxCalls == 2

\* largest millisecond clock reading
MaxClock == 1

\* longest time (ms) one solve call takes
MaxDur == 1

\* longest data argument of xor_bytes
MaxDataLen == 3

\* longest key argument of xor_bytes
MaxKeyLen == 4

(***************************************************************************)
(* Python string and bytes primitives.                                     *)
(***************************************************************************)
\* str.isspace for one ASCII character, as used by str.strip()
IsSpace(c) == c \in {9, 10, 11, 12, 13, 28, 29, 30, 31, 32}

RECURSIVE LStrip(_)
LStrip(s) == IF s # <<>> /\ IsSpace(Head(s)) THEN LStrip(Tail(s)) ELSE s

RECURSIVE RStrip(_)
RStrip(s) ==
    IF s # <<>> /\ IsSpace(s[Len(s)]) THEN RStrip(SubSeq(s, 1, Len(s) - 1))
    ELSE s

\* str.strip()
Strip(s) == RStrip(LStrip(s))

\* str.lower() on one character (ASCII letters; other characters of the
\* model's alphabet have no lower-case form)
LowerChar(c) == IF c >= 65 /\ c <= 90 THEN c + 32 ELSE c

\* str.lower()
Lower(s) == [i \in 1..Len(s) |-> LowerChar(s[i])]

\* the Python test  sub in s
Contains(s, sub) ==
    \E i \in 0..(Len(s) - Len(sub)) : SubSeq(s, i + 1, i + Len(sub)) = sub

\* str(n) for an integer n >= 0
RECURSIVE DecStr(_)
DecStr(n) == IF n < 10 THEN <<48 + n>> ELSE DecStr(n \div 10) \o <<48 + (n % 10)>>

\* str(n) for any integer
IntStr(n) == IF n < 0 THEN <<45>> \o DecStr(-n) ELSE DecStr(n)

IsDigit(c) == c >= 48 /\ c <= 57

IsHexDigit(c) ==
    IsDigit(c) \/ (c >= 97 /\ c <= 102) \/ (c >= 65 /\ c <= 70)

HexVal(c) ==
    IF IsDigit(c) THEN c - 48
    ELSE IF c >= 97 THEN c - 97 + 10
    ELSE c - 65 + 10

\* a ^ b on non-negative integers (Python's bitwise xor)
RECURSIVE BitXor(_, _)
BitXor(a, b) ==
    IF a = 0 THEN b
    ELSE IF b = 0 THEN a
    ELSE (((a % 2) + (b % 2)) % 2) + 2 * BitXor(a \div 2, b \div 2)

\* bytes.fromhex(s) for s made of an even number of hex digits
FromHex(s) ==
    [i \in 1..(Len(s) \div 2) |-> 16 * HexVal(s[2 * i - 1]) + HexVal(s[2 * i])]

\* value of one character of the base64 alphabet, -1 for any other
B64Val(c) ==
    IF c >= 65 /\ c <= 90 THEN c - 65
    ELSE IF c >= 97 /\ c <= 122 THEN c - 97 + 26
    ELSE IF c >= 48 /\ c <= 57 THEN c - 48 + 52
    ELSE IF c = 43 THEN 62
    ELSE IF c = 47 THEN 63
    ELSE -1

\* base64.b64decode(s) for unpadded input: characters outside the alphabet
\* are discarded, then every 4 characters give 3 bytes; a length that is
\* not a multiple of 4 is the "Incorrect padding" error
B64Decode(s) ==
    LET t == SelectSeq(s, LAMBDA c : B64Val(c) >= 0)
        Quad(k) == 262144 * B64Val(t[4 * k + 1]) + 4096 * B64Val(t[4 * k + 2])
                   + 64 * B64Val(t[4 * k + 3]) + B64Val(t[4 * k + 4])
        Byte(i) == LET q == Quad((i - 1) \div 3)
                       r == (i - 1) % 3
                   IN  IF r = 0 THEN q \div 65536
                       ELSE IF r = 1 THEN (q \div 256) % 256
                       ELSE q % 256
    IN  IF Len(t) % 4 # 0 THEN [ok |-> FALSE, val |-> <<>>]
        ELSE [ok |-> TRUE, val |-> [i \in 1..(3 * (Len(t) \div 4)) |-> Byte(i)]]

\* bytes.decode('utf-8'): ok = FALSE stands for UnicodeDecodeError
RECURSIVE Utf8Decode(_)
Utf8Decode(b) ==
    IF b = <<>> THEN [ok |-> TRUE, val |-> <<>>]
    ELSE
      LET c == b[1]
          n == IF c < 128 THEN 1
               ELSE IF c >= 194 /\ c <= 223 THEN 2
               ELSE IF c >= 224 /\ c <= 239 THEN 3
               ELSE IF c >= 240 /\ c <= 244 THEN 4
               ELSE 0
          valid == /\ n > 0
                   /\ Len(b) >= n
                   /\ \A i \in 2..n : b[i] >= 128 /\ b[i] <= 191
                   /\ (c = 224 => b[2] >= 160)
                   /\ (c = 237 => b[2] <= 159)
                   /\ (c = 240 => b[2] >= 144)
                   /\ (c = 244 => b[2] <= 143)
          cp == IF n = 1 THEN c
                ELSE IF n = 2 THEN (c - 192) * 64 + (b[2] - 128)
                ELSE IF n = 3
                  THEN (c - 224) * 4096 + (b[2] - 128) * 64 + (b[3] - 128)
                ELSE (c - 240) * 262144 + (b[2] - 128) * 4096
                     + (b[3] - 128) * 64 + (b[4] - 128)
          rest == Utf8Decode(SubSeq(b, n + 1, Len(b)))
      IN  IF ~valid THEN [ok |-> FALSE, val |-> <<>>]
          ELSE IF ~rest.ok THEN [ok |-> FALSE, val |-> <<>>]
          ELSE [ok |-> TRUE, val |-> <<cp>> \o rest.val]

HexDigitChar(v) == IF v < 10 THEN 48 + v ELSE 97 + v - 10

\* repr(b) of a bytes object
ReprBytes(b) ==
    LET hasSingle == \E i \in 1..Len(b) : b[i] = 39
        hasDouble == \E i \in 1..Len(b) : b[i] = 34
        quote == IF hasSingle /\ ~hasDouble THEN 34 ELSE 39
        Esc(c) == IF c = quote \/ c = 92 THEN <<92, c>>
                  ELSE IF c = 9 THEN <<92, 116>>
                  ELSE IF c = 10 THEN <<92, 110>>
                  ELSE IF c = 13 THEN <<92, 114>>
                  ELSE IF c < 32 \/ c >= 127
                    THEN <<92, 120, HexDigitChar(c \div 16), HexDigitChar(c % 16)>>
                  ELSE <<c>>
        body[i \in 0..Len(b)] == IF i = 0 THEN <<>> ELSE body[i - 1] \o Esc(b[i])
    IN  <<98, quote>> \o body[Len(b)] \o <<quote>>

\* int(s) for a str or bytes s, base 10: surrounding whitespace, an optional
\* sign, then digits with single underscores allowed between digits;
\* ok = FALSE stands for ValueError
ParseInt(s) ==
    LET t == Strip(s)
        signed == t # <<>> /\ t[1] \in {43, 45}
        body == IF signed THEN Tail(t) ELSE t
        wellFormed ==
            /\ body # <<>>
            /\ IsDigit(body[1])
            /\ IsDigit(body[Len(body)])
            /\ \A i \in 1..Len(body) : IsDigit(body[i]) \/ body[i] = 95
            /\ \A i \in 1..(Len(body) - 1) : ~(body[i] = 95 /\ body[i + 1] = 95)
        digits == SelectSeq(body, IsDigit)
        mag[i \in 0..Len(digits)] ==
            IF i = 0 THEN 0 ELSE 10 * mag[i - 1] + (digits[i] - 48)
    IN  IF ~wellFormed THEN [ok |-> FALSE, val |-> 0]
        ELSE [ok |-> TRUE,
              val |-> IF signed /\ t[1] = 45 THEN -mag[Len(digits)]
                      ELSE mag[Len(digits)]]

(***************************************************************************)
(* String literals of the source, as code point sequences.                 *)
(***************************************************************************)
\* "Guvf vf gur racenpgvba bs Rkqvgrra 33"
_cipher_text ==
    <<71, 117, 118, 102, 32, 118, 102, 32, 103, 117, 114, 32, 114, 97, 99,
    101, 110, 112, 103, 118, 98, 97, 32, 98, 115, 32, 82, 107, 113, 118,
    103, 114, 114, 97, 32, 51, 51>>

\* "Expedition"
Marker ==
    <<69, 120, 112, 101, 100, 105, 116, 105, 111, 110>>

\* "expedition"
marker_lower ==
    <<101, 120, 112, 101, 100, 105, 116, 105, 111, 110>>

\* "Decoded: "
MsgDecoded ==
    <<68, 101, 99, 111, 100, 101, 100, 58, 32>>

\* "Decoded but not recognizable: "
MsgNotRecognizable ==
    <<68, 101, 99, 111, 100, 101, 100, 32, 98, 117, 116, 32, 110, 111, 116,
    32, 114, 101, 99, 111, 103, 110, 105, 122, 97, 98, 108, 101, 58, 32>>

\* "Nice! Looks like the phrase is present."
MsgNice ==
    <<78, 105, 99, 101, 33, 32, 76, 111, 111, 107, 115, 32, 108, 105, 107,
    101, 32, 116, 104, 101, 32, 112, 104, 114, 97, 115, 101, 32, 105, 115,
    32, 112, 114, 101, 115, 101, 110, 116, 46>>

\* "String provided but not correct."
MsgStringNotCorrect ==
    <<83, 116, 114, 105, 110, 103, 32, 112, 114, 111, 118, 105, 100, 101,
    100, 32, 98, 117, 116, 32, 110, 111, 116, 32, 99, 111, 114, 114, 101,
    99, 116, 46>>

\* "Unsupported answer type"
MsgUnsupported ==
    <<85, 110, 115, 117, 112, 112, 111, 114, 116, 101, 100, 32, 97, 110,
    115, 119, 101, 114, 32, 116, 121, 112, 101>>

\* "SGVsbG8sIEV4cGVkaXRpb24gMzMh"
_blob_b64 ==
    <<83, 71, 86, 115, 98, 71, 56, 115, 73, 69, 86, 52, 99, 71, 86, 107,
    97, 88, 82, 112, 98, 50, 52, 103, 77, 122, 77, 104>>

\* "corrupt blob"
MsgCorruptBlob ==
    <<99, 111, 114, 114, 117, 112, 116, 32, 98, 108, 111, 98>>

\* "provide hex key"
MsgProvideHexKey ==
    <<112, 114, 111, 118, 105, 100, 101, 32, 104, 101, 120, 32, 107, 101,
    121>>

\* "Revealed: "
MsgRevealed ==
    <<82, 101, 118, 101, 97, 108, 101, 100, 58, 32>>

\* "Revealed but not expected: "
MsgRevealedNotExpected ==
    <<82, 101, 118, 101, 97, 108, 101, 100, 32, 98, 117, 116, 32, 110, 111,
    116, 32, 101, 120, 112, 101, 99, 116, 101, 100, 58, 32>>

\* "please provide an integer"
MsgProvideInteger ==
    <<112, 108, 101, 97, 115, 101, 32, 112, 114, 111, 118, 105, 100, 101,
    32, 97, 110, 32, 105, 110, 116, 101, 103, 101, 114>>

\* "Valid seed ??? checksum "
MsgValidSeed ==
    <<86, 97, 108, 105, 100, 32, 115, 101, 101, 100, 32, 226, 8364, 8221,
    32, 99, 104, 101, 99, 107, 115, 117, 109, 32>>

\* "Checksum "
MsgChecksum ==
    <<67, 104, 101, 99, 107, 115, 117, 109, 32>>

\* " not matching"
MsgNotMatching ==
    <<32, 110, 111, 116, 32, 109, 97, 116, 99, 104, 105, 110, 103>>

\* "path must be a string"
MsgPathMustBeString ==
    <<112, 97, 116, 104, 32, 109, 117, 115, 116, 32, 98, 101, 32, 97, 32,
    115, 116, 114, 105, 110, 103>>

\* "Found note: "
MsgFoundNote ==
    <<70, 111, 117, 110, 100, 32, 110, 111, 116, 101, 58, 32>>

\* "Found text but not expected: "
MsgFoundNotExpected ==
    <<70, 111, 117, 110, 100, 32, 116, 101, 120, 116, 32, 98, 117, 116, 32,
    110, 111, 116, 32, 101, 120, 112, 101, 99, 116, 101, 100, 58, 32>>

\* "no such file or not a file"
MsgNoSuchFile ==
    <<110, 111, 32, 115, 117, 99, 104, 32, 102, 105, 108, 101, 32, 111,
    114, 32, 110, 111, 116, 32, 97, 32, 102, 105, 108, 101>>

\* "/nope"
PathNope ==
    <<47, 110, 111, 112, 101>>

\* "Expedition 33"
StrExpedition33 ==
    <<69, 120, 112, 101, 100, 105, 116, 105, 111, 110, 32, 51, 51>>

\* "331"
Str331 ==
    <<51, 51, 49>>

\* "attempt"
KwAttempt ==
    <<97, 116, 116, 101, 109, 112, 116>>

\* "puzzle"
KwPuzzle ==
    <<112, 117, 122, 122, 108, 101>>

\* "attempts"
KwAttempts ==
    <<97, 116, 116, 101, 109, 112, 116, 115>>

\* "duration"
KwDuration ==
    <<100, 117, 114, 97, 116, 105, 111, 110>>

\* "ok"
KwOk ==
    <<111, 107>>

\* "message"
KwMessage ==
    <<109, 101, 115, 115, 97, 103, 101>>

\* "error"
KwError ==
    <<101, 114, 114, 111, 114>>

\* "cryptic-shift"
NameCrypticShift ==
    <<99, 114, 121, 112, 116, 105, 99, 45, 115, 104, 105, 102, 116>>

\* "xor-echo"
NameXorEcho ==
    <<120, 111, 114, 45, 101, 99, 104, 111>>

\* "echo-checksum"
NameEchoChecksum ==
    <<101, 99, 104, 111, 45, 99, 104, 101, 99, 107, 115, 117, 109>>

\* "logfs"
NameLogfs ==
    <<108, 111, 103, 102, 115>>

\* "non-existent"
NameNonExistent ==
    <<110, 111, 110, 45, 101, 120, 105, 115, 116, 101, 110, 116>>

\* "unknown puzzle"
MsgUnknownPuzzle ==
    <<117, 110, 107, 110, 111, 119, 110, 32, 112, 117, 122, 122, 108,
    101>>

\* "provide puzzle name"
MsgProvidePuzzleName ==
    <<112, 114, 111, 118, 105, 100, 101, 32, 112, 117, 122, 122, 108, 101,
    32, 110, 97, 109, 101>>

\* "None"
StrNone ==
    <<78, 111, 110, 101>>

\* "puzzle not found"
MsgPuzzleNotFound ==
    <<112, 117, 122, 122, 108, 101, 32, 110, 111, 116, 32, 102, 111, 117,
    110, 100>>

\* "ZeroDivisionError: "
ZeroDivisionErrorColon ==
    <<90, 101, 114, 111, 68, 105, 118, 105, 115, 105, 111, 110, 69, 114,
    114, 111, 114, 58, 32>>

\* "internal error: "
MsgInternalError ==
    <<105, 110, 116, 101, 114, 110, 97, 108, 32, 101, 114, 114, 111, 114,
    58, 32>>

\* "integer modulo by zero"
MsgModuloByZero ==
    <<105, 110, 116, 101, 103, 101, 114, 32, 109, 111, 100, 117, 108, 111,
    32, 98, 121, 32, 122, 101, 114, 111>>

\* "station 33"
station33 ==
    <<115, 116, 97, 116, 105, 111, 110, 32, 51, 51>>

\* "33"
s33 ==
    <<51, 51>>

\* "expedition"
NameExpedition ==
    <<101, 120, 112, 101, 100, 105, 116, 105, 111, 110>>

\* "README.txt"
NameReadme ==
    <<82, 69, 65, 68, 77, 69, 46, 116, 120, 116>>

\* "logs"
NameLogs ==
    <<108, 111, 103, 115>>

\* "meta.yml"
NameMeta ==
    <<109, 101, 116, 97, 46, 121, 109, 108>>

\* "day01.txt"
NameDay01 ==
    <<100, 97, 121, 48, 49, 46, 116, 120, 116>>

\* "day02.txt"
NameDay02 ==
    <<100, 97, 121, 48, 50, 46, 116, 120, 116>>

\* "/"
PathRoot ==
    <<47>>

\* "/expedition"
PathExpedition ==
    <<47, 101, 120, 112, 101, 100, 105, 116, 105, 111, 110>>

\* "/expedition/logs"
PathLogs ==
    <<47, 101, 120, 112, 101, 100, 105, 116, 105, 111, 110, 47, 108, 111,
    103, 115>>

\* "/expedition/logs/day01.txt"
PathDay01 ==
    <<47, 101, 120, 112, 101, 100, 105, 116, 105, 111, 110, 47, 108, 111,
    103, 115, 47, 100, 97, 121, 48, 49, 46, 116, 120, 116>>

\* "/expedition/logs/day02.txt"
PathDay02 ==
    <<47, 101, 120, 112, 101, 100, 105, 116, 105, 111, 110, 47, 108, 111,
    103, 115, 47, 100, 97, 121, 48, 50, 46, 116, 120, 116>>

\* "We reached the crater."
TextDay01 ==
    <<87, 101, 32, 114, 101, 97, 99, 104, 101, 100, 32, 116, 104, 101, 32,
    99, 114, 97, 116, 101, 114, 46>>

\* "Found traces of station 33."
TextDay02 ==
    <<70, 111, 117, 110, 100, 32, 116, 114, 97, 99, 101, 115, 32, 111, 102,
    32, 115, 116, 97, 116, 105, 111, 110, 32, 51, 51, 46>>

(***************************************************************************)
(* utils/helpers.py and utils/crypto.py                                    *)
(***************************************************************************)
\* sum(int(ch) for ch in str(n)) for n >= 0
RECURSIVE DigitSum(_)
DigitSum(n) == IF n < 10 THEN n ELSE (n % 10) + DigitSum(n \div 10)

\* the loop  while s >= 100: s = sum(int(ch) for ch in str(s))
RECURSIVE FoldWhileLarge(_)
FoldWhileLarge(s) == IF s >= 100 THEN FoldWhileLarge(DigitSum(s)) ELSE s

\* sum(int(ch) for ch in s) for a str s of decimal digits
StrDigitSum(s) ==
    LET acc[i \in 0..Len(s)] == IF i = 0 THEN 0 ELSE acc[i - 1] + (s[i] - 48)
    IN  acc[Len(s)]

\* checksum_digits without the fold loop: the digit sum modulo 100
checksum_digits_str_nofold(s) == StrDigitSum(s) % 100

\* checksum_digits from line 15 on, given s = str(n) of the non-negative n
checksum_digits_str(s) == FoldWhileLarge(StrDigitSum(s)) % 100

checksum_digits(n) ==
    LET m == IF n < 0 THEN -n ELSE n
    IN  checksum_digits_str(IntStr(m))

\* An integer of any size: its sign and str(abs(n)).
BigInt(neg, digits) == [neg |-> neg, digits |-> digits]

\* -n
BigNeg(n) ==
    IF n.digits = <<48>> THEN n ELSE BigInt(~n.neg, n.digits)

\* checksum_digits(n) for an integer of any size
checksum_digits_big(n) ==
    LET m == IF n.neg THEN BigNeg(n) ELSE n
    IN  checksum_digits_str(m.digits)

\* xor_bytes pairing the bytes with zip(a, b) instead of cycling the key
xor_bytes_zip(a, b) ==
    IF b = <<>> THEN [raised |-> TRUE, val |-> <<>>]
    ELSE LET n == IF Len(a) < Len(b) THEN Len(a) ELSE Len(b)
         IN  [raised |-> FALSE, val |-> [i \in 1..n |-> BitXor(a[i], b[i])]]

\* xor_bytes(a, b): raised = TRUE stands for ValueError("empty key")
xor_bytes(a, b) ==
    IF b = <<>> THEN [raised |-> TRUE, val |-> <<>>]
    ELSE [raised |-> FALSE,
          val |-> [i \in 1..Len(a) |-> BitXor(a[i], b[((i - 1) % Len(b)) + 1])]]

(***************************************************************************)
(* The outcome of one solve call: a returned (ok, message) pair, or an     *)
(* exception of class exc whose str() is message.                          *)
(***************************************************************************)
Return(ok, message) ==
    [raised |-> FALSE, ok |-> ok, message |-> message, exc |-> "none"]

Raise(exc, message) ==
    [raised |-> TRUE, ok |-> FALSE, message |-> message, exc |-> exc]

(***************************************************************************)
(* puzzles/puzzle1.py: cryptic-shift                                       *)
(***************************************************************************)
_rot_n(s, n) ==
    [i \in 1..Len(s) |->
        IF s[i] >= 97 /\ s[i] <= 122 THEN ((s[i] - 97 + n) % 26) + 97
        ELSE IF s[i] >= 65 /\ s[i] <= 90 THEN ((s[i] - 65 + n) % 26) + 65
        ELSE s[i]]

Puzzle1_solve(answer) ==
    IF answer.type = "int" THEN
        LET decoded == _rot_n(_cipher_text, answer.num)
        IN  IF Contains(decoded, Marker) \/ Contains(Lower(decoded), Lower(Marker))
            THEN Return(TRUE, MsgDecoded \o decoded)
            ELSE Return(FALSE, MsgNotRecognizable \o decoded)
    ELSE IF answer.type = "str" THEN
        LET normalized == Strip(answer.str)
        IN  IF Contains(normalized, Marker) \/ Contains(normalized, marker_lower)
            THEN Return(TRUE, MsgNice)
            ELSE Return(FALSE, MsgStringNotCorrect)
    ELSE Return(FALSE, MsgUnsupported)

(***************************************************************************)
(* puzzles/puzzle2.py: xor-echo                                            *)
(***************************************************************************)
\* the key derived from the answer; ok = FALSE stands for key = None
Puzzle2_key(answer) ==
    IF answer.type = "str" THEN
        LET s == Strip(answer.str)
        IN  IF (\A i \in 1..Len(s) : IsHexDigit(s[i])) /\ Len(s) % 2 = 0
            THEN [ok |-> TRUE, val |-> FromHex(s)]
            ELSE [ok |-> FALSE, val |-> <<>>]
    ELSE IF answer.type = "bytes" THEN [ok |-> TRUE, val |-> answer.str]
    ELSE [ok |-> FALSE, val |-> <<>>]

Puzzle2_solve(answer) ==
    LET blob == B64Decode(_blob_b64)
        key == Puzzle2_key(answer)
    IN  IF ~blob.ok THEN Return(FALSE, MsgCorruptBlob)
        ELSE IF ~key.ok THEN Return(FALSE, MsgProvideHexKey)
        \* key[i % len(key)] with len(key) = 0, evaluated for the first byte
        ELSE IF Len(key.val) = 0 /\ Len(blob.val) > 0
          THEN Raise("ZeroDivisionError", MsgModuloByZero)
        ELSE
          LET out == [i \in 1..Len(blob.val) |->
                        BitXor(blob.val[i], key.val[((i - 1) % Len(key.val)) + 1])]
              dec == Utf8Decode(out)
              text == IF dec.ok THEN dec.val ELSE ReprBytes(out)
          IN  IF Contains(text, Marker) \/ Contains(Lower(text), Lower(Marker))
              THEN Return(TRUE, MsgRevealed \o text)
              ELSE Return(FALSE, MsgRevealedNotExpected \o text)

(***************************************************************************)
(* puzzles/puzzle3.py: echo-checksum                                       *)
(***************************************************************************)
SEED == 331

\* int(answer); ok = FALSE stands for the ValueError or TypeError it raises
ToInt(answer) ==
    IF answer.type = "int" THEN [ok |-> TRUE, val |-> answer.num]
    ELSE IF answer.type \in {"str", "bytes"} THEN ParseInt(answer.str)
    ELSE [ok |-> FALSE, val |-> 0]

\* Puzzle3.solve leaving the seed out of the comparison
Puzzle3_solve_noseed(answer) ==
    LET val == ToInt(answer)
        calc == checksum_digits(val.val)
    IN  IF ~val.ok THEN Return(FALSE, MsgProvideInteger)
        ELSE IF calc % 100 = 33
          THEN Return(TRUE, MsgValidSeed \o IntStr(calc))
        ELSE Return(FALSE, (MsgChecksum \o IntStr(calc)) \o MsgNotMatching)

Puzzle3_solve(answer) ==
    LET val == ToInt(answer)
        calc == checksum_digits(val.val)
    IN  IF ~val.ok THEN Return(FALSE, MsgProvideInteger)
        ELSE IF (calc + (SEED % 100)) % 100 = 33
          THEN Return(TRUE, MsgValidSeed \o IntStr(calc))
        ELSE Return(FALSE, (MsgChecksum \o IntStr(calc)) \o MsgNotMatching)

(***************************************************************************)
(* puzzles/puzzle4.py: logfs                                               *)
(***************************************************************************)
\* an entry is a listing (isstr = FALSE, the names as val) or a file
\* (isstr = TRUE, its text as val)
_fs ==
    (PathRoot :> [isstr |-> FALSE, val |-> <<NameExpedition, NameReadme>>])
    @@ (PathExpedition :> [isstr |-> FALSE, val |-> <<NameLogs, NameMeta>>])
    @@ (PathLogs :> [isstr |-> FALSE, val |-> <<NameDay01, NameDay02>>])
    @@ (PathDay01 :> [isstr |-> TRUE, val |-> TextDay01])
    @@ (PathDay02 :> [isstr |-> TRUE, val |-> TextDay02])

\* Puzzle4.solve looking the answer up without strip()
Puzzle4_solve_nostrip(answer) ==
    IF answer.type # "str" THEN Return(FALSE, MsgPathMustBeString)
    ELSE
      LET path == answer.str
      IN  IF path \in DOMAIN _fs /\ _fs[path].isstr THEN
            IF Contains(Lower(_fs[path].val), station33) \/ Contains(_fs[path].val, s33)
            THEN Return(TRUE, MsgFoundNote \o _fs[path].val)
            ELSE Return(FALSE, MsgFoundNotExpected \o _fs[path].val)
          ELSE Return(FALSE, MsgNoSuchFile)

Puzzle4_solve(answer) ==
    IF answer.type # "str" THEN Return(FALSE, MsgPathMustBeString)
    ELSE
      LET path == Strip(answer.str)
      IN  IF path \in DOMAIN _fs /\ _fs[path].isstr THEN
            IF Contains(Lower(_fs[path].val), station33) \/ Contains(_fs[path].val, s33)
            THEN Return(TRUE, MsgFoundNote \o _fs[path].val)
            ELSE Return(FALSE, MsgFoundNotExpected \o _fs[path].val)
          ELSE Return(FALSE, MsgNoSuchFile)

(***************************************************************************)
(* puzzles/registry.py                                                     *)
(***************************************************************************)
\* the names registered by the four @register decorators
registry == {"cryptic-shift", "xor-echo", "echo-checksum", "logfs"}

\* registry[name](engine).solve(answer)
Solve(name, answer) ==
    IF name = "cryptic-shift" THEN Puzzle1_solve(answer)
    ELSE IF name = "xor-echo" THEN Puzzle2_solve(answer)
    ELSE IF name = "echo-checksum" THEN Puzzle3_solve(answer)
    ELSE Puzzle4_solve(answer)

(***************************************************************************)
(* Answers                                                                 *)
(***************************************************************************)
\* An answer: num is the value of an int, str the characters of a str or the
\* bytes of a bytes object.
IntAns(n) == [type |-> "int", num |-> n, str |-> <<>>]
StrAns(s) == [type |-> "str", num |-> 0, str |-> s]
BytesAns(b) == [type |-> "bytes", num |-> 0, str |-> b]
NoneAns == [type |-> "none", num |-> 0, str |-> <<>>]

(***************************************************************************)
(* core/engine.py                                                          *)
(***************************************************************************)
VARIABLES
    heap,          \* the dict objects: reference -> mapping of key to value
    heldRef,       \* reference of the mapping a caller got from get_stats, -1 if none
    heldModified,  \* the caller has modified the mapping it holds
    clock,         \* int(time.time() * 1000)
    calls,         \* number of attempt calls made
    last,          \* what the most recent attempt call did
    instantiated,  \* number of variant objects constructed
    made,          \* per name: attempt calls made, and those whose solve returned
    op,            \* the operation performed by the latest step
    fin,           \* argument of the function under check
    fout,          \* its result
    fpc            \* position of the function check

vars == <<heap, heldRef, heldModified, clock, calls, last, instantiated, made,
          op, fin, fout, fpc>>

engineVars == <<heap, heldRef, heldModified, clock, calls, last, instantiated,
                made, op>>

fnVars == <<fin, fout, fpc>>

\* reference of PuzzleEngine.store._data
StoreRef == 0

\* PuzzleEngine.store._data
Store == heap[StoreRef]

\* f"puzzle:{puzzle_name}:attempts"
CounterKey(name) == <<"puzzle", name, -1, "attempts">>

\* an attempt id made of int(time.time()), the time in whole seconds
AttemptKey_seconds(name, ts, field) == <<"attempt", name, ts \div 1000, field>>

\* f"{attempt_id}:{field}" with attempt_id = f"attempt:{puzzle_name}:{ts}"
AttemptKey(name, ts, field) == <<"attempt", name, ts, field>>

\* the characters of the words and names that occur in keys
Chars ==
    ("attempt" :> KwAttempt) @@ ("puzzle" :> KwPuzzle)
    @@ ("attempts" :> KwAttempts) @@ ("duration" :> KwDuration)
    @@ ("ok" :> KwOk) @@ ("message" :> KwMessage) @@ ("error" :> KwError)
    @@ ("cryptic-shift" :> NameCrypticShift) @@ ("xor-echo" :> NameXorEcho)
    @@ ("echo-checksum" :> NameEchoChecksum) @@ ("logfs" :> NameLogfs)
    @@ ("non-existent" :> NameNonExistent)

\* the str a key stands for: the f-strings of attempt, joined by ':'
KeyStr(k) ==
    IF k[3] = -1
    THEN (((Chars[k[1]] \o <<58>>) \o Chars[k[2]]) \o <<58>>) \o Chars[k[4]]
    ELSE (((((Chars[k[1]] \o <<58>>) \o Chars[k[2]]) \o <<58>>) \o IntStr(k[3]))
          \o <<58>>) \o Chars[k[4]]

\* InMemoryStore.get on the mapping d
store_get(d, key, default) == IF key \in DOMAIN d THEN d[key] ELSE default

\* InMemoryStore.set on the mapping d
store_set(d, key, value) ==
    [k \in (DOMAIN d) \cup {key} |-> IF k = key THEN value ELSE d[k]]

\* InMemoryStore.incr storing delta instead of adding it
store_incr_overwrite(d, key, delta) == store_set(d, key, delta)

\* InMemoryStore.incr on the mapping d
store_incr(d, key, delta) == store_set(d, key, store_get(d, key, 0) + delta)

\* traceback.format_exc(): its last line, "<class>: <message>\n"; the stack
\* frames printed before it depend on the installation
FormatExc(r) == (ZeroDivisionErrorColon \o r.message) \o <<10>>

\* names a caller may pass: the registered ones and one that is not
Names == registry \cup {"non-existent"}

\* names attempted on the long-lived engine
EngineNames == {"cryptic-shift", "xor-echo", "non-existent"}

\* the record of an attempt call
Call(name, answer, ts, dur, raised, solveRaised, ok, message) ==
    [name |-> name, answer |-> answer, ts |-> ts, duration |-> dur,
     raised |-> raised, solveRaised |-> solveRaised, ok |-> ok,
     message |-> message]

NoCall == Call("", NoneAns, -1, 0, "none", FALSE, FALSE, <<>>)

\* attempt counting the call before it looks the name up
NotFound_counted(puzzle_name, answer) ==
    /\ last' = Call(puzzle_name, answer, -1, 0, "PuzzleError", FALSE, FALSE,
                    MsgPuzzleNotFound)
    /\ made' = [made EXCEPT ![puzzle_name].calls = @ + 1]
    /\ heap' = [heap EXCEPT ![StoreRef] = store_incr(@, CounterKey(puzzle_name), 1)]
    /\ UNCHANGED <<instantiated, clock>>

\* attempt, lines 48-49: the name is not registered
NotFound(puzzle_name, answer) ==
    /\ last' = Call(puzzle_name, answer, -1, 0, "PuzzleError", FALSE, FALSE,
                    MsgPuzzleNotFound)
    /\ made' = [made EXCEPT ![puzzle_name].calls = @ + 1]
    /\ UNCHANGED <<heap, instantiated, clock>>

\* attempt, lines 56-61: solve returned r after dur milliseconds
Record(puzzle_name, answer, ts, dur, r) ==
    /\ heap' = [heap EXCEPT ![StoreRef] =
          store_set(
            store_set(
              store_set(
                store_incr(@, CounterKey(puzzle_name), 1),
                AttemptKey(puzzle_name, ts, "duration"), dur),
              AttemptKey(puzzle_name, ts, "ok"), r.ok),
            AttemptKey(puzzle_name, ts, "message"), r.message)]
    /\ last' = Call(puzzle_name, answer, ts, dur, "none", FALSE, r.ok, r.message)
    /\ made' = [made EXCEPT ![puzzle_name].calls = @ + 1,
                            ![puzzle_name].returned = @ + 1]

\* attempt without the except clause: the exception of solve propagates
Recover_reraise(puzzle_name, answer, ts, dur, r) ==
    /\ heap' = heap
    /\ last' = Call(puzzle_name, answer, ts, dur, r.exc, TRUE, FALSE, r.message)
    /\ made' = [made EXCEPT ![puzzle_name].calls = @ + 1]

\* attempt counting the call in the except clause as well
Recover_counted(puzzle_name, answer, ts, dur, r) ==
    /\ heap' = [heap EXCEPT ![StoreRef] =
          store_set(store_incr(@, CounterKey(puzzle_name), 1),
                    AttemptKey(puzzle_name, ts, "error"), FormatExc(r))]
    /\ last' = Call(puzzle_name, answer, ts, dur, "none", TRUE, FALSE,
                    MsgInternalError \o r.message)
    /\ made' = [made EXCEPT ![puzzle_name].calls = @ + 1]

\* attempt, lines 62-65: solve raised the exception r
Recover(puzzle_name, answer, ts, dur, r) ==
    /\ heap' = [heap EXCEPT ![StoreRef] =
          store_set(@, AttemptKey(puzzle_name, ts, "error"), FormatExc(r))]
    /\ last' = Call(puzzle_name, answer, ts, dur, "none", TRUE, FALSE,
                    MsgInternalError \o r.message)
    /\ made' = [made EXCEPT ![puzzle_name].calls = @ + 1]

\* PuzzleEngine.attempt(puzzle_name, answer), solve taking dur milliseconds
attempt(puzzle_name, answer, dur) ==
    /\ calls < MaxCalls
    /\ clock + dur <= MaxClock
    /\ calls' = calls + 1
    /\ op' = "attempt"
    /\ IF puzzle_name \notin registry THEN NotFound(puzzle_name, answer)
       ELSE
          LET ts == clock
              r == Solve(puzzle_name, answer)
          IN  /\ instantiated' = instantiated + 1
              /\ clock' = clock + dur
              /\ IF ~r.raised THEN Record(puzzle_name, answer, ts, dur, r)
                 ELSE Recover(puzzle_name, answer, ts, dur, r)
    /\ UNCHANGED <<heldRef, heldModified>>

\* get_stats returning the store's own mapping
get_stats_alias(h) == [heap |-> h, ref |-> StoreRef]

\* PuzzleEngine.get_stats(): the heap after the call and the reference returned
get_stats(h) ==
    LET stats == [k \in DOMAIN h[StoreRef] |-> h[StoreRef][k]]
    IN  [heap |-> (StoreRef :> h[StoreRef]) @@ (1 :> stats), ref |-> 1]

\* a caller calls get_stats() and keeps the result
GetStats ==
    /\ heap' = get_stats(heap).heap
    /\ heldRef' = get_stats(heap).ref
    /\ heldModified' = FALSE
    /\ op' = "get_stats"
    /\ UNCHANGED <<clock, calls, last, instantiated, made, fin, fout, fpc>>

\* key a caller adds to the mapping it holds
CallerKey == <<"caller", "", -1, "note">>

\* the caller deletes a counter from the mapping it holds, or stores an entry
ModifyHeld ==
    /\ heldRef # -1
    /\ ~heldModified
    /\ \/ \E k \in {j \in DOMAIN heap[heldRef] : j[4] = "attempts"} :
             heap' = [heap EXCEPT ![heldRef] =
                        [j \in (DOMAIN @) \ {k} |-> @[j]]]
       \/ heap' = [heap EXCEPT ![heldRef] = store_set(@, CallerKey, 0)]
    /\ heldModified' = TRUE
    /\ op' = "modify"
    /\ UNCHANGED <<heldRef, clock, calls, last, instantiated, made, fin, fout, fpc>>

\* a millisecond passes between two calls
Tick ==
    /\ clock < MaxClock
    /\ clock' = clock + 1
    /\ op' = "tick"
    /\ UNCHANGED <<heap, heldRef, heldModified, calls, last, instantiated, made,
                   fin, fout, fpc>>

\* "00", a hex key
Str00 == <<48, 48>>

\* answers given to the engine
EngineAnswers ==
    {IntAns(13), StrAns(<<>>), StrAns(Str00)}

\* PuzzleEngine(registry)
EngineInit ==
    /\ heap = (StoreRef :> <<>>)
    /\ heldRef = -1
    /\ heldModified = FALSE
    /\ clock = 0
    /\ calls = 0
    /\ last = NoCall
    /\ instantiated = 0
    /\ made = [n \in Names |-> [calls |-> 0, returned |-> 0]]
    /\ op = "init"

Init ==
    /\ EngineInit
    /\ fin = <<>>
    /\ fout = <<>>
    /\ fpc = "off"

\* a caller makes an attempt
Attempt ==
    /\ \E n \in EngineNames, a \in EngineAnswers, d \in 0..MaxDur :
          attempt(n, a, d)
    /\ UNCHANGED fnVars

Next == Attempt \/ GetStats \/ ModifyHeld \/ Tick

Spec == Init /\ [][Next]_vars

(***************************************************************************)
(* One attempt on a fresh engine, for every name and a wide set of         *)
(* answers.                                                                *)
(***************************************************************************)
\* longest generated str answer
MaxStrLen == 3

\* longest generated bytes answer
MaxBytesLen == 2

\* largest generated int answer (and the negative of the smallest)
MaxIntAns == 27

\* all sequences over S of length at most n
SeqsUpTo(S, n) == UNION {[1..k -> S] : k \in 0..n}

\* characters of generated str answers: ' ' '-' '/' '0' '1' '2' '_' 'f' 'z'
AnswerChars == {32, 45, 47, 48, 49, 50, 95, 102, 122}

\* bytes of generated bytes answers
AnswerBytes == {0, 32, 50, 255}

\* a 21-byte key that leaves the blob intact but for its first byte, which
\* becomes 0xb7: the result is not UTF-8
KeyFirstByte == <<255>> \o [i \in 1..20 |-> 0]

\* a 21-byte key that turns the first two bytes of the blob into the UTF-8
\* encoding of U+00E9
KeyTwoBytes == <<139, 204>> \o [i \in 1..19 |-> 0]

SolveAnswers ==
    {IntAns(n) : n \in (-MaxIntAns)..MaxIntAns}
    \cup {IntAns(n) : n \in {101, 110, 200, 331, 1999999999}}
    \cup {StrAns(s) : s \in SeqsUpTo(AnswerChars, MaxStrLen)}
    \cup {StrAns(s) : s \in {PathExpedition, PathLogs, PathDay01, PathDay02,
                             PathNope, (<<32>> \o PathDay02) \o <<10>>,
                             PathDay02 \o <<47>>, Str331, StrExpedition33,
                             marker_lower, TextDay02}}
    \cup {BytesAns(b) : b \in SeqsUpTo(AnswerBytes, MaxBytesLen)}
    \cup {BytesAns(KeyFirstByte), BytesAns(KeyTwoBytes)}
    \cup {NoneAns}

SolveInit ==
    /\ EngineInit
    /\ fin \in [name : Names, answer : SolveAnswers]
    /\ fout = <<>>
    /\ fpc = "call"

\* engine.attempt(name, answer) on the fresh engine
SolveCall ==
    /\ fpc = "call"
    /\ attempt(fin.name, fin.answer, 0)
    /\ fpc' = "done"
    /\ UNCHANGED <<fin, fout>>

SolveNext == SolveCall

SpecSolve == SolveInit /\ [][SolveNext]_vars

(***************************************************************************)
(* xor_bytes applied twice with the same key.                              *)
(***************************************************************************)
\* byte values of generated data and keys
XorBytes == {0, 90, 255}

XorInit ==
    /\ EngineInit
    /\ fin \in [data : SeqsUpTo(XorBytes, MaxDataLen),
                key : SeqsUpTo(XorBytes, MaxKeyLen)]
    /\ fout = [raised |-> FALSE, once |-> <<>>, twice |-> <<>>]
    /\ fpc = "first"

\* res = xor_bytes(data, key)
XorFirst ==
    /\ fpc = "first"
    /\ LET r == xor_bytes(fin.data, fin.key)
       IN  /\ fout' = [raised |-> r.raised, once |-> r.val, twice |-> <<>>]
           /\ fpc' = IF r.raised THEN "done" ELSE "second"
    /\ UNCHANGED <<fin, engineVars>>

\* back = xor_bytes(res, key)
XorSecond ==
    /\ fpc = "second"
    /\ LET r == xor_bytes(fout.once, fin.key)
       IN  /\ fout' = [fout EXCEPT !.raised = r.raised, !.twice = r.val]
           /\ fpc' = "done"
    /\ UNCHANGED <<fin, engineVars>>

XorNext == XorFirst \/ XorSecond

SpecXor == XorInit /\ [][XorNext]_vars


(***************************************************************************)
(* checksum_digits on integers of any size.                                *)
(***************************************************************************)
\* most digits of a generated integer
MaxDigits == 12

\* largest generated small integer (and the negative of the smallest)
MaxSmallInt == 120

\* k nines with the digit at position i replaced by d
NinesBut(k, i, d) == [j \in 1..k |-> IF j = i THEN 48 + d ELSE 57]

\* str(abs(n)) of the generated integers: the small ones, and runs of nines
\* with one digit changed (no leading zero)
ChecksumDigits ==
    {DecStr(m) : m \in 0..MaxSmallInt}
    \cup {s \in {NinesBut(k[1], k[2], k[3]) :
                    k \in (2..MaxDigits) \X (1..MaxDigits) \X (0..9)} :
             s[1] # 48}

ChecksumInit ==
    /\ EngineInit
    /\ fin \in {n \in {BigInt(neg, s) : neg \in BOOLEAN, s \in ChecksumDigits} :
                  ~(n.neg /\ n.digits = <<48>>)}
    /\ fout = [of_n |-> -1, of_minus_n |-> -1]
    /\ fpc = "call"

\* checksum_digits(n) and checksum_digits(-n)
ChecksumCall ==
    /\ fpc = "call"
    /\ fout' = [of_n |-> checksum_digits_big(fin),
                of_minus_n |-> checksum_digits_big(BigNeg(fin))]
    /\ fpc' = "done"
    /\ UNCHANGED <<fin, engineVars>>

ChecksumNext == ChecksumCall

SpecChecksum == ChecksumInit /\ [][ChecksumNext]_vars

(***************************************************************************)
(* The callers of the engine: app.py (HTTP), cli.py and the collector of   *)
(* analysis.py, each serving one request on a fresh engine.                *)
(***************************************************************************)
\* longest generated --answer payload and JSON answer string
MaxPayloadLen == 2

\* most time (ms) the collector spends around the engine call
MaxOverhead == 1

\* what a front-end gives back: code is the HTTP status or the exit code,
\* uncaught the class of an exception that leaves the front-end, error the
\* error text sent or printed, ok and message the fields of a result
Resp(code, uncaught, error, ok, message) ==
    [code |-> code, uncaught |-> uncaught, error |-> error, ok |-> ok,
     message |-> message]

\* app.solve_puzzle(name) with the JSON body {"answer": answer}
solve_puzzle(name, answer) ==
    IF name \notin registry THEN
        /\ fout' = Resp(404, "none", MsgUnknownPuzzle, FALSE, <<>>)
        /\ UNCHANGED engineVars
    ELSE
        /\ attempt(name, answer, 0)
        /\ fout' = IF last'.raised # "none"
                   THEN Resp(500, "none", last'.message, FALSE, <<>>)
                   ELSE Resp(200, "none", <<>>, last'.ok, last'.message)

\* cli.main: the parsing of --answer, lines 36-53
cli_parse(payload) ==
    IF payload.type = "none" THEN NoneAns
    ELSE
      LET v == ParseInt(payload.str)
          s == Strip(payload.str)
      IN  IF v.ok THEN IntAns(v.val)
          ELSE IF (\A i \in 1..Len(s) : IsHexDigit(s[i])) /\ Len(s) % 2 = 0
            THEN BytesAns(FromHex(s))
          ELSE payload

\* cli.main(["solve", puzzle, "--answer", payload]); an exception that
\* leaves main ends the process with exit code 1
cli_solve(puzzle, payload) ==
    IF puzzle = "" THEN
        /\ fout' = Resp(2, "none", MsgProvidePuzzleName, FALSE, <<>>)
        /\ UNCHANGED engineVars
    ELSE
        /\ attempt(puzzle, cli_parse(payload), 0)
        /\ fout' = IF last'.raised # "none"
                   THEN Resp(1, last'.raised, <<>>, FALSE, <<>>)
                   ELSE Resp(0, "none", <<>>, last'.ok, last'.message)

\* str(answer)
AnswerStr(answer) ==
    IF answer.type = "int" THEN IntStr(answer.num)
    ELSE IF answer.type = "str" THEN answer.str
    ELSE IF answer.type = "bytes" THEN ReprBytes(answer.str)
    ELSE StrNone

\* DataCollector.record(puzzle, answer): solve takes dur milliseconds, the
\* rest of the call overhead more; keyRead is the key given to store.get
record(puzzle, answer, dur, overhead) ==
    /\ attempt(puzzle, answer, dur)
    /\ LET start == clock
           keyRead == <<"attempt", puzzle, -1, "duration">>
           stored == store_get(Store', keyRead, 0)
           duration == IF stored # 0 THEN stored ELSE dur + overhead
       IN  fout' = [puzzle |-> puzzle, answer |-> AnswerStr(answer),
                    ok |-> last'.ok, message |-> last'.message,
                    duration |-> duration, ts |-> start, keyRead |-> keyRead,
                    uncaught |-> last'.raised]

HttpAnswers ==
    {IntAns(n) : n \in (-1)..14}
    \cup {StrAns(s) : s \in SeqsUpTo(AnswerChars, MaxPayloadLen)}
    \cup {NoneAns}

CliPayloads ==
    {StrAns(s) : s \in SeqsUpTo(AnswerChars, MaxPayloadLen)} \cup {NoneAns}

FrontInit ==
    /\ EngineInit
    /\ fin \in [front : {"http"}, name : Names, answer : HttpAnswers]
          \cup [front : {"cli"}, name : Names \cup {""}, answer : CliPayloads]
          \cup [front : {"collector"}, name : registry, answer : HttpAnswers]
    /\ fout = <<>>
    /\ fpc = "call"

\* POST /puzzle/<name>/solve
HttpSolve ==
    /\ fpc = "call"
    /\ fin.front = "http"
    /\ solve_puzzle(fin.name, fin.answer)
    /\ fpc' = "done"
    /\ UNCHANGED fin

\* the command line  solve <puzzle> --answer <payload>
CliSolve ==
    /\ fpc = "call"
    /\ fin.front = "cli"
    /\ cli_solve(fin.name, fin.answer)
    /\ fpc' = "done"
    /\ UNCHANGED fin

\* collector.record(puzzle, answer)
CollectorRecord ==
    /\ fpc = "call"
    /\ fin.front = "collector"
    /\ \E dur \in 0..MaxDur, overhead \in 0..MaxOverhead :
          record(fin.name, fin.answer, dur, overhead)
    /\ fpc' = "done"
    /\ UNCHANGED fin

FrontNext == HttpSolve \/ CliSolve \/ CollectorRecord

SpecFront == FrontInit /\ [][FrontNext]_vars
(***************************************************************************)
(* Properties                                                              *)
(***************************************************************************)
\* the latest step was an attempt call
AttemptStep == op' = "attempt" /\ calls' = calls + 1

\* s begins with p
StartsWith(s, p) == Len(s) >= Len(p) /\ SubSeq(s, 1, Len(p)) = p

\* C1: an attempt on a name that is not registered raises PuzzleError and
\* does nothing else: the store keeps its keys and values and no variant is
\* constructed, whatever attempts were made before.
C1_UnknownNameOnlyRaises ==
    [][(AttemptStep /\ last'.name \notin registry)
         => /\ last'.raised = "PuzzleError"
            /\ heap' = heap
            /\ instantiated' = instantiated]_vars

\* an unregistered name is attempted on an engine whose store holds the
\* records of an earlier attempt
C1_Witness ==
    /\ op = "attempt"
    /\ last.name \notin registry
    /\ last.raised = "PuzzleError"
    /\ calls >= 2
    /\ DOMAIN Store # {}

\* C2: an attempt on a registered name never raises; when solve raises, the
\* trace is stored under '<attempt id>:error' and the call returns
\* (False, 'internal error: <summary>').  PuzzleError for an unregistered
\* name is the only exception that leaves attempt.
C2_OnlyPuzzleErrorEscapes ==
    /\ last.name \in registry =>
          /\ last.raised = "none"
          /\ last.solveRaised = Solve(last.name, last.answer).raised
          /\ last.solveRaised =>
                /\ AttemptKey(last.name, last.ts, "error") \in DOMAIN Store
                /\ Contains(Store[AttemptKey(last.name, last.ts, "error")],
                            Solve(last.name, last.answer).message)
                /\ last.ok = FALSE
                /\ last.message
                     = MsgInternalError \o Solve(last.name, last.answer).message
    /\ last.raised # "none" =>
          last.raised = "PuzzleError" /\ last.name \notin registry

\* solve raised and the call returned the internal-error pair
C2_Witness ==
    /\ op = "attempt"
    /\ last.name \in registry
    /\ last.solveRaised
    /\ last.raised = "none"
    /\ StartsWith(last.message, MsgInternalError)

\* C3: when solve returns (ok, message), attempt adds exactly 1 to
\* 'puzzle:<name>:attempts', stores duration, ok and message under the
\* attempt id made of the name and the millisecond timestamp, and returns
\* the pair of solve; the stored ok and message are the returned ones.
C3_NormalReturnRecorded ==
    [][(AttemptStep /\ last'.name \in registry /\ ~last'.solveRaised)
         => LET n == last'.name
                r == Solve(n, last'.answer)
                Key(field) == AttemptKey(n, clock, field)
            IN  /\ ~r.raised
                /\ last'.raised = "none"
                /\ last'.ts = clock
                /\ last'.ok = r.ok
                /\ last'.message = r.message
                /\ CounterKey(n) \in DOMAIN Store'
                /\ Store'[CounterKey(n)] = store_get(Store, CounterKey(n), 0) + 1
                /\ {Key("duration"), Key("ok"), Key("message")} \subseteq DOMAIN Store'
                /\ Store'[Key("duration")] = last'.duration
                /\ Store'[Key("ok")] = last'.ok
                /\ Store'[Key("message")] = last'.message]_vars

\* a second normally returning attempt on one name, counted 2
C3_Witness ==
    /\ op = "attempt"
    /\ last.name \in registry
    /\ ~last.solveRaised
    /\ last.ok
    /\ CounterKey(last.name) \in DOMAIN Store
    /\ Store[CounterKey(last.name)] = 2

\* the mapping get_stats() returns in the current state
StatsNow == get_stats(heap).heap[get_stats(heap).ref]

\* C4: after two attempts on one registered name, whatever the answers,
\* get_stats() has the key 'puzzle:<name>:attempts' with a value of at
\* least 2.
C4_TwoAttemptsCounted ==
    \A n \in registry :
        made[n].calls >= 2 =>
            /\ CounterKey(n) \in DOMAIN StatsNow
            /\ StatsNow[CounterKey(n)] >= 2

\* C5: every built-in variant handles every int, str and bytes answer
\* without raising, so attempt never returns an 'internal error: ...'
\* result for them; xor-echo answers 'provide hex key' whenever no usable
\* key can be derived from the answer.
C5_VariantsNeverRaise ==
    (fpc = "done" /\ fin.name \in registry) =>
        /\ ~last.solveRaised
        /\ ~StartsWith(last.message, MsgInternalError)
        /\ (fin.name = "xor-echo"
              /\ (~Puzzle2_key(fin.answer).ok \/ Puzzle2_key(fin.answer).val = <<>>))
             => (~last.ok /\ last.message = MsgProvideHexKey)

\* C6: attempt('cryptic-shift', 13) returns success = true.
C6_Shift13Succeeds ==
    (op = "attempt" /\ last.name = "cryptic-shift" /\ last.answer = IntAns(13))
        => last.ok = TRUE

\* "Checksum 7 not matching"
MsgChecksum7 ==
    <<67, 104, 101, 99, 107, 115, 117, 109, 32, 55, 32, 110, 111, 116, 32,
      109, 97, 116, 99, 104, 105, 110, 103>>

\* C7: echo-checksum succeeds exactly when the answer parses as an integer
\* whose digit checksum is 2; '331' fails with the checksum-mismatch message
\* for checksum 7, and an answer that does not parse as an integer fails
\* with 'please provide an integer'.
C7_ChecksumTwoSucceeds ==
    (fpc = "done" /\ fin.name = "echo-checksum") =>
        LET v == ToInt(fin.answer)
        IN  /\ last.raised = "none" /\ ~last.solveRaised
            /\ last.ok <=> (v.ok /\ checksum_digits(v.val) = 2)
            /\ ~v.ok => last.message = MsgProvideInteger
            /\ (v.ok /\ ~last.ok) =>
                  last.message
                    = (MsgChecksum \o IntStr(checksum_digits(v.val))) \o MsgNotMatching
            /\ fin.answer = StrAns(Str331) =>
                  (~last.ok /\ last.message = MsgChecksum7)
            /\ fin.answer \in {IntAns(2), IntAns(-11), IntAns(200),
                              StrAns(<<32, 50>>), StrAns(<<49, 95, 49>>),
                              BytesAns(<<50>>)} => last.ok
            /\ fin.answer \in {StrAns(<<>>), StrAns(<<49, 95>>), StrAns(<<45>>),
                              StrAns(<<49, 32, 49>>), NoneAns}
                  => (~last.ok /\ last.message = MsgProvideInteger)

\* a str answer with surrounding space and an underscore is parsed to 11,
\* whose checksum is 2
C7_Witness ==
    /\ fpc = "done"
    /\ fin.name = "echo-checksum"
    /\ fin.answer = StrAns(<<49, 95, 49>>)
    /\ last.ok

\* C8: logfs succeeds exactly when the answer is a str whose stripped value
\* is a path of the tree that maps to text containing '33'; an absent path
\* or a directory gives 'no such file or not a file', a file without the
\* marker the found-but-not-expected message, an answer that is not a str
\* 'path must be a string'.
C8_LogfsOutcome ==
    (fpc = "done" /\ fin.name = "logfs") =>
        LET a == fin.answer
            p == Strip(a.str)
            isFile == p \in DOMAIN _fs /\ _fs[p].isstr
        IN  /\ last.raised = "none" /\ ~last.solveRaised
            /\ last.ok <=> (a.type = "str" /\ isFile /\ Contains(_fs[p].val, s33))
            /\ a.type # "str" => last.message = MsgPathMustBeString
            /\ (a.type = "str" /\ ~isFile) => last.message = MsgNoSuchFile
            /\ (a.type = "str" /\ isFile /\ ~last.ok) =>
                  last.message = MsgFoundNotExpected \o _fs[p].val
            /\ a = StrAns(PathDay02) => last.ok
            /\ a = StrAns(PathDay01) =>
                  (~last.ok /\ last.message = MsgFoundNotExpected \o TextDay01)
            /\ a \in {StrAns(PathNope), StrAns(PathLogs), StrAns(PathRoot),
                      StrAns(PathDay02 \o <<47>>)}
                  => (~last.ok /\ last.message = MsgNoSuchFile)

\* the path of day02.txt, given with surrounding whitespace, succeeds
C8_Witness ==
    /\ fpc = "done"
    /\ fin.name = "logfs"
    /\ fin.answer = StrAns((<<32>> \o PathDay02) \o <<10>>)
    /\ last.ok
    /\ last.message = MsgFoundNote \o TextDay02

\* C9: get_stats() returns a copy of the whole store: the returned mapping
\* has exactly the store's keys and values, the call leaves the store as it
\* was, later attempts do not change a mapping returned earlier, and
\* modifying a returned mapping does not change the store.
C9_StatsIsSnapshot ==
    [][/\ op' = "get_stats" => (heap'[heldRef'] = Store /\ Store' = Store)
       /\ (AttemptStep /\ heldRef # -1) => heap'[heldRef] = heap[heldRef]
       /\ op' = "modify" => Store' = Store]_vars

\* a mapping returned earlier was modified by its holder, then an attempt
\* was made: the mapping and the store differ
C9_Witness ==
    /\ op = "attempt"
    /\ heldRef # -1
    /\ heldModified
    /\ DOMAIN heap[heldRef] # DOMAIN Store
    /\ CallerKey \in DOMAIN heap[heldRef]
    /\ last.raised = "none"

\* C10: for every data and every non-empty key, shorter than, as long as or
\* longer than data, xor_bytes(xor_bytes(data, key), key) = data, and the
\* results are as long as data.
C10_XorSelfInverse ==
    (fpc = "done" /\ fin.key # <<>>) =>
        /\ ~fout.raised
        /\ fout.twice = fin.data
        /\ Len(fout.once) = Len(fin.data)
        /\ Len(fout.twice) = Len(fin.data)

\* a key shorter than the data was cycled, changed the data, and the second
\* application restored it
C10_Witness ==
    /\ fpc = "done"
    /\ Len(fin.key) = 2
    /\ Len(fin.data) = 3
    /\ \A i \in 1..3 : fout.once[i] # fin.data[i]
    /\ fout.twice = fin.data

\* twelve nines: the digit sum is 108
TwelveNines == [j \in 1..12 |-> 57]

\* C11: checksum_digits(n) lies in 0..99, is the same for n and -n, is 0
\* for 0, and is the digit sum of |n|, summed again digit by digit while it
\* is 100 or more.
C11_ChecksumRangeAndSymmetry ==
    fpc = "done" =>
        LET raw == StrDigitSum(fin.digits)
        IN  /\ fout.of_n \in 0..99
            /\ fout.of_n = fout.of_minus_n
            /\ fin.digits = <<48>> => fout.of_n = 0
            /\ raw < 100 => fout.of_n = raw
            /\ (raw >= 100 /\ raw < 1000) =>
                  fout.of_n = (raw \div 100) + ((raw \div 10) % 10) + (raw % 10)
            /\ fin.digits = TwelveNines => fout.of_n = 9

\* a negative integer whose digit sum, 108, is folded to 9
C11_Witness ==
    /\ fpc = "done"
    /\ fin.neg
    /\ fin.digits = TwelveNines
    /\ fout.of_n = 9
    /\ fout.of_minus_n = 9

\* the attempt keys of d that belong to the id made of name and ts
IdKeys(d, name, ts) ==
    {k \in DOMAIN d : k[1] = "attempt" /\ k[2] = name /\ k[3] = ts}

\* C12: the attempt id is made of the name and the millisecond timestamp
\* only.  A normally returning attempt on a name and millisecond that
\* already has a record writes the same three keys: afterwards duration, ok
\* and message under the id are its own, no key is added, and the counter
\* has counted both.  An attempt never writes an attempt key of another
\* name or another millisecond, and no two keys stand for the same str.
C12_IdIsNameAndMillisecond ==
    [][(AttemptStep /\ last'.name \in registry)
         => LET n == last'.name
                Key(field) == <<"attempt", n, clock, field>>
            IN  /\ (~last'.solveRaised /\ Key("ok") \in DOMAIN Store) =>
                      /\ DOMAIN Store' = DOMAIN Store
                      /\ Store'[Key("duration")] = last'.duration
                      /\ Store'[Key("ok")] = last'.ok
                      /\ Store'[Key("message")] = last'.message
                      /\ Store'[CounterKey(n)] = Store[CounterKey(n)] + 1
                /\ \A k \in DOMAIN Store :
                      (k[1] = "attempt" /\ <<k[2], k[3]>> # <<n, clock>>)
                        => (k \in DOMAIN Store' /\ Store'[k] = Store[k])
                /\ (DOMAIN Store') \ (DOMAIN Store)
                      \subseteq {CounterKey(n)} \cup IdKeys(Store', n, clock)
                /\ \A k1, k2 \in DOMAIN Store' :
                      KeyStr(k1) = KeyStr(k2) => k1 = k2]_vars

\* two attempts on one name returned in the same millisecond: the counter
\* is 2 and the store holds one record
C12_Witness ==
    /\ op = "attempt"
    /\ last.name \in registry
    /\ ~last.solveRaised
    /\ made[last.name].returned = 2
    /\ Store[CounterKey(last.name)] = 2
    /\ Cardinality({k \in DOMAIN Store :
                       k[1] = "attempt" /\ k[2] = last.name /\ k[4] = "ok"}) = 1
    /\ Store[<<"attempt", last.name, last.ts, "ok">>] = last.ok

\* C13: for a solve request that names an unregistered puzzle, the HTTP
\* route and the CLI both answer 'unknown puzzle' (status 404, or a
\* non-zero exit code), and no exception leaves the front-end.
C13_FrontEndsReportUnknownPuzzle ==
    (fpc = "done" /\ fin.front \in {"http", "cli"}
       /\ fin.name \notin registry /\ fin.name # "")
      => /\ fout.uncaught = "none"
         /\ fout.error = MsgUnknownPuzzle
         /\ fin.front = "http" => fout.code = 404
         /\ fin.front = "cli" => fout.code # 0

\* C14: for an attempt that returned normally, the key DataCollector.record
\* reads is the key under which attempt stored the duration, and the
\* recorded duration is the stored one.
C14_RecordReadsEngineDuration ==
    (fpc = "done" /\ fin.front = "collector" /\ ~last.solveRaised)
      => LET stored == AttemptKey(last.name, last.ts, "duration")
         IN  /\ stored \in DOMAIN Store
             /\ KeyStr(fout.keyRead) = KeyStr(stored)
             /\ fout.duration = Store[stored]

\* C15: an attempt whose solve raises writes only the key
\* '<attempt id>:error': every other key of the store, the counters among
\* them, keeps its value.  Hence at any time 'puzzle:<name>:attempts' is the
\* number of attempts on <name> whose solve returned, absent when that
\* number is 0, whatever the number of attempts made.
C15_RaisingAttemptWritesOnlyError ==
    /\ [][(AttemptStep /\ last'.solveRaised)
            => LET errorKey == AttemptKey(last'.name, last'.ts, "error")
               IN  /\ DOMAIN Store' = DOMAIN Store \cup {errorKey}
                   /\ \A k \in DOMAIN Store :
                         k # errorKey => Store'[k] = Store[k]]_vars
    /\ [](\A n \in registry :
            IF made[n].returned = 0
            THEN CounterKey(n) \notin DOMAIN Store
            ELSE /\ CounterKey(n) \in DOMAIN Store
                 /\ Store[CounterKey(n)] = made[n].returned)

\* a raising attempt after a returning one on the same name: two attempts
\* made, the counter at 1
C15_Witness ==
    /\ op = "attempt"
    /\ last.solveRaised
    /\ made[last.name].calls = 2
    /\ made[last.name].returned = 1
    /\ AttemptKey(last.name, last.ts, "error") \in DOMAIN Store
    /\ Store[CounterKey(last.name)] = 1

\* C16: every attempt id of the store carries either a recorded outcome or
\* an error trace, never both: no id has 'error' together with 'ok',
\* 'message' or 'duration', and an id that has one of 'ok', 'message',
\* 'duration' has all three.
C16_OutcomeOrErrorNeverBoth ==
    \A k \in DOMAIN Store :
        k[1] = "attempt" =>
            LET fields == {j[4] : j \in IdKeys(Store, k[2], k[3])}
                outcome == {"ok", "message", "duration"}
            IN  /\ ~("error" \in fields /\ fields \cap outcome # {})
                /\ fields \cap outcome # {} => outcome \subseteq fields
====
